---- MODULE Spec2Model ----
(***************************************************************************)
(* Model of the calculation execution core of quacc:                       *)
(*   - run_calc (src/quacc/util/calc.py): the scoped scratch-directory      *)
(*     wrapper around atoms.get_potential_energy();                         *)
(*   - the recipes StaticJob, RelaxJob, DoubleRelaxJob                      *)
(*     (src/quacc/recipes/vasp/core.py) and QMOFMaker with its stage        *)
(*     functions (src/quacc/recipes/vasp/qmof.py).                          *)
(* Collaborators that live outside the three source files (ScratchDir,      *)
(* merge_dicts, SmartVasp, summarize_run, the solver) are modelled at the   *)
(* interface the specification gives them.                                  *)
(***************************************************************************)
EXTENDS Integers, Sequences, FiniteSets, TLC

(* ------------------------------ bounds --------------------------------- *)

\* number of recipe / run_calc invocations followed in one behaviour
MaxInvocations == 2

(* --------------------------- value universe ---------------------------- *)

\* k-point grids a calculator can resolve to; Trivial is the single-point grid
Trivial == <<1, 1, 1>>

Grids == {<<1, 1, 1>>, <<2, 2, 2>>}

NoKpts == <<0, 0, 0>>

\* a dict with no key
EmptyDict == [k \in {} |-> "None"]

\* the override layers a user can hand to a recipe (swaps, swaps1, swaps2)
SwapsChoices ==
    { EmptyDict,
      [k \in {"istart"} |-> "1"],
      [k \in {"nedos"} |-> "None"],
      [nsw |-> "100", lreal |-> "False", encut |-> "520"],
      [lwave |-> "None", encut |-> "None"] }

Recipes == {"Direct", "Static", "Relax", "DoubleRelax", "QMOF"}

\* a structure without attached calculator, at geometry g
BareAtoms(g) ==
    [geom |-> g, hasCalc |-> FALSE, params |-> EmptyDict, kpts |-> NoKpts,
     solved |-> FALSE]

(* ------------------------------- state --------------------------------- *)

VARIABLES
    invocations,   \* invocations started so far
    recipe,        \* the recipe being executed, "none" when idle
    volume_relax,  \* the recipe's volume_relax field
    swaps1,        \* swaps (or swaps1) of the recipe
    swaps2,        \* swaps2 of DoubleRelaxJob
    pc,            \* stage of the recipe
    atoms,         \* the recipe's local variable atoms
    kpts1,         \* local kpts1 of the double relaxations
    outcome,       \* what the recipe's caller got: "none", "ok" or the error
    summaries,     \* stages after which summarize_run was called
    stagesRun,     \* stages whose solver invocation was started
    running,       \* stage whose solver invocation is executing, or "none"
    rc,            \* position inside run_calc
    objs,          \* the two structure objects run_calc can see
    ref,           \* object run_calc's local atoms refers to
    callerBefore,  \* the caller's structure when run_calc was called
    origBefore,    \* files in the original directory when run_calc was called
    err,           \* exception in flight in / raised by run_calc
    gzip,          \* run_calc argument gzip
    copy_from_store_dir, \* run_calc argument copy_from_store_dir
    posix,         \* os.name != "nt"
    tmpdirs,       \* subdirectories existing under the scratch root
    link,          \* target of the reverse-link at the original location, 0 if none
    cwd,           \* 0: the original directory, else the scratch subdirectory
    session,       \* subdirectory of the open scratch session, 0 if none
    made,          \* subdirectories created so far (mkdtemp names)
    origFiles,     \* files in the original directory
    tmpFiles,      \* files in the session's scratch subdirectory
    exitLog,       \* cleanup steps of the current run_calc call, in order
    triggers,      \* solver triggers of the current run_calc call
    sessionsOfStage \* scratch sessions opened for the current stage

vars == <<invocations, recipe, volume_relax, swaps1, swaps2, pc, atoms, kpts1,
          outcome, summaries, stagesRun, running, rc, objs, ref, callerBefore,
          origBefore, err, gzip, copy_from_store_dir, posix, tmpdirs, link, cwd, session,
          made, origFiles, tmpFiles, exitLog, triggers, sessionsOfStage>>

recipeVars == <<invocations, recipe, volume_relax, swaps1, swaps2, pc, atoms,
                kpts1, outcome, summaries>>

fsVars == <<tmpdirs, link, cwd, session, made, origFiles, tmpFiles>>

(* ------------------------- parameter merging --------------------------- *)

\* merge_dicts(d1, d2, remove_none): later layer wins, None-valued keys go
Merged(d1, d2) ==
    [k \in (DOMAIN d1) \cup (DOMAIN d2) |->
        IF k \in DOMAIN d2 THEN d2[k] ELSE d1[k]]

RemoveNone(d) ==
    [k \in {x \in DOMAIN d : d[x] # "None"} |-> d[k]]

merge_dicts(d1, d2, remove_none) ==
    IF remove_none THEN RemoveNone(Merged(d1, d2)) ELSE Merged(d1, d2)

\* swaps = self.swaps or {}: a missing override layer is the empty dict
\* (SwapsChoices holds EmptyDict for both None and {})

StaticDefaults ==
    [ismear |-> "-5", isym |-> "2", laechg |-> "True", lcharg |-> "True",
     lwave |-> "True", nedos |-> "5001", nsw |-> "0", sigma |-> "0.05"]

\* variant: the two isif values are the wrong way round
RelaxDefaultsIsifSwapped(vr) ==
    [ediffg |-> "-0.02", isif |-> IF vr THEN "2" ELSE "3", ibrion |-> "2",
     ismear |-> "0", isym |-> "0", lcharg |-> "False", lwave |-> "False",
     nsw |-> "200", sigma |-> "0.05"]

RelaxDefaults(vr) ==
    [ediffg |-> "-0.02", isif |-> IF vr THEN "3" ELSE "2", ibrion |-> "2",
     ismear |-> "0", isym |-> "0", lcharg |-> "False", lwave |-> "False",
     nsw |-> "200", sigma |-> "0.05"]

DoubleRelaxDefaults(vr) ==
    [ediffg |-> "-0.02", isif |-> IF vr THEN "3" ELSE "2", ibrion |-> "2",
     ismear |-> "0", isym |-> "0", lcharg |-> "False", lwave |-> "True",
     nsw |-> "200", sigma |-> "0.05"]

\* variant: the pre-relaxation pins a cutoff of its own
PrerelaxDefaultsWithEncut ==
    [auto_kpts |-> "grid_density=100", ediff |-> "1e-4", encut |-> "400",
     lcharg |-> "False", lreal |-> "auto", lwave |-> "True", nelm |-> "225",
     nsw |-> "0"]

PrerelaxDefaults ==
    [auto_kpts |-> "grid_density=100", ediff |-> "1e-4", encut |-> "None",
     lcharg |-> "False", lreal |-> "auto", lwave |-> "True", nelm |-> "225",
     nsw |-> "0"]

LoosePositionsDefaults ==
    [auto_kpts |-> "grid_density=100", ediff |-> "1e-4", ediffg |-> "-0.05",
     encut |-> "None", isif |-> "2", lcharg |-> "False", lreal |-> "auto",
     lwave |-> "True", nsw |-> "250"]

LooseVolumeDefaults ==
    [auto_kpts |-> "grid_density=100", isif |-> "3", lcharg |-> "False",
     lreal |-> "auto", lwave |-> "True", nsw |-> "500"]

Production1Defaults(vr) ==
    [isif |-> IF vr THEN "3" ELSE "2", lcharg |-> "False", lreal |-> "auto",
     lwave |-> "True", nsw |-> IF vr THEN "500" ELSE "250"]

\* del defaults["lreal"]
DelKey(d, key) == [k \in (DOMAIN d) \ {key} |-> d[k]]

\* variant: lreal is not taken out of the defaults
Production2DefaultsKeepLreal(vr) == Production1Defaults(vr)

Production2Defaults(vr) == DelKey(Production1Defaults(vr), "lreal")

(* ----------------------- calculator and solver ------------------------- *)

\* SmartVasp(atoms, preset, **flags): attaches a fresh calculator holding
\* the directives; the preset lookup resolves the k-point grid to g
SmartVasp(a, flags, g) ==
    [geom |-> a.geom, hasCalc |-> TRUE, params |-> flags, kpts |-> g,
     solved |-> FALSE]

\* variant: istart is only set where the merged flags left it open
SetIstart0IfUnset(a) ==
    IF "istart" \in DOMAIN a.params
    THEN a
    ELSE [a EXCEPT !.params =
            [k \in (DOMAIN a.params) \cup {"istart"} |->
                IF k = "istart" THEN "0" ELSE a.params[k]]]

\* atoms.calc.set(istart=0)
SetIstart0(a) ==
    [a EXCEPT !.params =
        [k \in (DOMAIN a.params) \cup {"istart"} |->
            IF k = "istart" THEN "0" ELSE a.params[k]]]

\* variant: the first grid is not looked at
RestartRuleSecondGridOnly(k1, k2) == k2 # Trivial

\* if kpts1 == [1, 1, 1] and kpts2 != [1, 1, 1]
RestartRule(k1, k2) == k1 = Trivial /\ k2 # Trivial

ApplyRestartRule(a, k1, k2) ==
    IF RestartRule(k1, k2) THEN SetIstart0(a) ELSE a

\* a finished solver run records its results on the structure and moves
\* the geometry on
SolverOutput(a) == [a EXCEPT !.geom = @ + 1, !.solved = TRUE]

\* summary record of summarize_run; summary["atoms"] is the structure
Summary(a) == a

(* --------------------------- run_calc pieces --------------------------- *)

\* variant: no copy is taken, the local name refers to the caller's object
SameObjectRef == "caller"

\* atoms = deepcopy(atoms): the local name refers to an independent copy
DeepCopyRef == "copy"

\* variant: the calculator is not checked
CalculatorNotChecked(a) == FALSE

\* if atoms.calc is None
MissingCalculator(a) == ~a.hasCalc

\* create_symbolic_link=True if os.name != "nt" else False
create_symbolic_link == posix

\* copy_from_current_on_enter=copy_from_store_dir
copy_from_current_on_enter == copy_from_store_dir

\* copy_to_current_on_exit=True
copy_to_current_on_exit == TRUE

\* gzip_on_exit=gzip
gzip_on_exit == gzip

\* variant: the link is left in place on exit
keep_symlink_on_exit == FALSE

\* remove_symlink_on_exit=True
remove_symlink_on_exit == TRUE

\* variant: delete-tracking is switched on
track_removed_files == TRUE

\* delete_removed_files=False
delete_removed_files == FALSE

\* name of the compressed form of a file
Gz(f) == IF f = "pre" THEN "pre.gz" ELSE "out.gz"


\* the files the solver writes into its working directory
SolverWrites == {"out"}

(* ------------------------------ run_calc ------------------------------- *)

\* the call run_calc(a, gzip=gz, copy_from_store_dir=seed) by a caller
CallRunCalc(a, gz, seed) ==
    /\ rc' = "call"
    /\ objs' = [caller |-> a, copy |-> BareAtoms(0)]
    /\ callerBefore' = a
    /\ origBefore' = origFiles
    /\ ref' = "caller"
    /\ err' = "none"
    /\ gzip' = gz
    /\ copy_from_store_dir' = seed
    /\ exitLog' = <<>>
    /\ triggers' = 0

\* ScratchDir.__enter__: fresh subdirectory under the scratch root, seeded
\* from the original directory on request, reverse-link, chdir into it
ScratchEnter ==
    /\ made' = made + 1
    /\ session' = made + 1
    /\ tmpdirs' = tmpdirs \cup {made + 1}
    /\ tmpFiles' = IF copy_from_current_on_enter THEN origFiles ELSE {}
    /\ link' = IF create_symbolic_link THEN made + 1 ELSE link
    /\ cwd' = made + 1
    /\ UNCHANGED origFiles

\* lines 43-56: deepcopy, the calculator check, entering the with block
RunCalcEnter ==
    /\ rc = "call"
    /\ ref' = DeepCopyRef
    /\ objs' = [objs EXCEPT !["copy"] = objs["caller"]]
    /\ IF MissingCalculator(objs["caller"])
       THEN /\ err' = "ValueError"
            /\ rc' = "raised"
            /\ UNCHANGED <<fsVars, running, sessionsOfStage, stagesRun>>
       ELSE /\ ScratchEnter
            /\ rc' = "body"
            /\ running' = pc
            /\ stagesRun' = Append(stagesRun, pc)
            /\ sessionsOfStage' = sessionsOfStage + 1
            /\ UNCHANGED err
    /\ UNCHANGED <<recipeVars, callerBefore,
                   origBefore, gzip, copy_from_store_dir, posix,
                   exitLog, triggers>>

\* line 59: atoms.get_potential_energy() returns; the solver has written
\* its output into the working directory and may have deleted a file there
SolverOk ==
    /\ rc = "body"
    /\ objs' = [objs EXCEPT ![ref] = SolverOutput(@)]
    /\ \E del \in BOOLEAN :
          tmpFiles' = (IF del THEN tmpFiles \ {"pre"} ELSE tmpFiles) \cup SolverWrites
    /\ triggers' = triggers + 1
    /\ running' = "none"
    /\ rc' = "exit_copy"
    /\ UNCHANGED <<recipeVars, stagesRun, ref, callerBefore,
                   origBefore, err, gzip,
                   copy_from_store_dir, posix, tmpdirs, link, cwd, session,
                   made, origFiles, exitLog, sessionsOfStage>>

\* variant: the solver's exception is caught around the trigger and dropped
SolverFailSuppressed ==
    /\ rc = "body"
    /\ err' = "none"
    /\ \E partial \in BOOLEAN :
          tmpFiles' = IF partial THEN tmpFiles \cup SolverWrites ELSE tmpFiles
    /\ triggers' = triggers + 1
    /\ running' = "none"
    /\ rc' = "exit_copy"
    /\ UNCHANGED <<recipeVars, stagesRun, objs, ref, callerBefore,
                   origBefore, gzip,
                   copy_from_store_dir, posix, tmpdirs, link, cwd, session,
                   made, origFiles, exitLog, sessionsOfStage>>

\* line 59: atoms.get_potential_energy() raises; partial output may exist
SolverFail ==
    /\ rc = "body"
    /\ err' = "SolverError"
    /\ \E partial \in BOOLEAN :
          tmpFiles' = IF partial THEN tmpFiles \cup SolverWrites ELSE tmpFiles
    /\ triggers' = triggers + 1
    /\ running' = "none"
    /\ rc' = "exit_copy"
    /\ UNCHANGED <<recipeVars, stagesRun, objs, ref, callerBefore,
                   origBefore, gzip,
                   copy_from_store_dir, posix, tmpdirs, link, cwd, session,
                   made, origFiles, exitLog, sessionsOfStage>>

\* the output files among those copied back: what the compress step packs
CopiedOutput == tmpFiles \cap SolverWrites

\* with delete-tracking on, the files the session was seeded with and that
\* are gone from the scratch subdirectory are deleted at the destination
RemovedInScratch ==
    IF delete_removed_files /\ copy_from_current_on_enter
    THEN origBefore \ tmpFiles
    ELSE {}

\* ScratchDir.__exit__, first step: copy the scratch files back
ExitCopyBack ==
    /\ rc = "exit_copy"
    /\ origFiles' = IF copy_to_current_on_exit
                    THEN (origFiles \cup tmpFiles) \ RemovedInScratch
                    ELSE origFiles
    /\ exitLog' = Append(exitLog, "copy")
    /\ rc' = IF gzip_on_exit THEN "exit_gzip" ELSE "exit_unlink"
    /\ UNCHANGED <<recipeVars, stagesRun, running, objs, ref, callerBefore,
                   origBefore,
                   err, gzip, copy_from_store_dir, posix, tmpdirs, link, cwd,
                   session, made, tmpFiles, triggers, sessionsOfStage>>

\* variant: a failing compress step ends the cleanup there and then
ExitCompressAbortsCleanup ==
    /\ rc = "exit_gzip"
    /\ \E ok \in BOOLEAN :
          IF ok
          THEN /\ origFiles' = (origFiles \ CopiedOutput) \cup {Gz(f) : f \in CopiedOutput}
               /\ rc' = "exit_unlink"
               /\ UNCHANGED err
          ELSE /\ err' = "CompressError"
               /\ rc' = "raised"
               /\ UNCHANGED origFiles
    /\ exitLog' = Append(exitLog, "compress")
    /\ UNCHANGED <<recipeVars, stagesRun, running, objs, ref, callerBefore,
                   origBefore,
                   gzip, copy_from_store_dir, posix, tmpdirs, link, cwd,
                   session, made, tmpFiles, triggers, sessionsOfStage>>

\* ScratchDir.__exit__, second step: compress the copied files; the step
\* can fail, and its error then replaces whatever was in flight
ExitCompress ==
    /\ rc = "exit_gzip"
    /\ \E ok \in BOOLEAN :
          IF ok
          THEN /\ origFiles' = (origFiles \ CopiedOutput) \cup {Gz(f) : f \in CopiedOutput}
               /\ UNCHANGED err
          ELSE /\ err' = "CompressError"
               /\ UNCHANGED origFiles
    /\ exitLog' = Append(exitLog, "compress")
    /\ rc' = "exit_unlink"
    /\ UNCHANGED <<recipeVars, stagesRun, running, objs, ref, callerBefore,
                   origBefore,
                   gzip, copy_from_store_dir, posix, tmpdirs, link, cwd,
                   session, made, tmpFiles, triggers, sessionsOfStage>>

\* ScratchDir.__exit__, third step: leave the subdirectory, retract the link
ExitRetractLink ==
    /\ rc = "exit_unlink"
    /\ link' = IF remove_symlink_on_exit THEN 0 ELSE link
    /\ cwd' = 0
    /\ exitLog' = Append(exitLog, "unlink")
    /\ rc' = "exit_rmtree"
    /\ UNCHANGED <<recipeVars, stagesRun, running, objs, ref, callerBefore,
                   origBefore,
                   err, gzip, copy_from_store_dir, posix, tmpdirs, session,
                   made, origFiles, tmpFiles, triggers, sessionsOfStage>>

\* ScratchDir.__exit__, last step: remove the subdirectory; then line 61
\* returns the local atoms, or the exception in flight leaves run_calc
ExitRemoveDir ==
    /\ rc = "exit_rmtree"
    /\ tmpdirs' = tmpdirs \ {session}
    /\ session' = 0
    /\ tmpFiles' = {}
    /\ exitLog' = Append(exitLog, "rmtree")
    /\ rc' = IF err = "none" THEN "returned" ELSE "raised"
    /\ UNCHANGED <<recipeVars, stagesRun, running, objs, ref, callerBefore,
                   origBefore,
                   err, gzip, copy_from_store_dir, posix, link, cwd, made,
                   origFiles, triggers, sessionsOfStage>>

\* run_calc has handed control back to its caller
RunCalcOver == rc \in {"returned", "raised"}

(* ------------------------- invocations, Init --------------------------- *)

Init ==
    /\ invocations = 0
    /\ recipe = "none"
    /\ volume_relax = TRUE
    /\ swaps1 = EmptyDict
    /\ swaps2 = EmptyDict
    /\ pc = "idle"
    /\ atoms = BareAtoms(0)
    /\ kpts1 = NoKpts
    /\ outcome = "none"
    /\ summaries = <<>>
    /\ stagesRun = <<>>
    /\ running = "none"
    /\ rc = "idle"
    /\ objs = [caller |-> BareAtoms(0), copy |-> BareAtoms(0)]
    /\ ref = "caller"
    /\ callerBefore = BareAtoms(0)
    /\ origBefore = {}
    /\ err = "none"
    /\ gzip = TRUE
    /\ copy_from_store_dir = FALSE
    /\ posix \in BOOLEAN
    /\ tmpdirs = {}
    /\ link = 0
    /\ cwd = 0
    /\ session = 0
    /\ made = 0
    /\ origFiles \in {{}, {"pre"}}
    /\ tmpFiles = {}
    /\ exitLog = <<>>
    /\ triggers = 0
    /\ sessionsOfStage = 0

\* a recipe invocation starts with fresh locals
Begin(r, vr, s1, s2, first) ==
    /\ recipe = "none"
    /\ invocations < MaxInvocations
    /\ invocations' = invocations + 1
    /\ recipe' = r
    /\ volume_relax' = vr
    /\ swaps1' = s1
    /\ swaps2' = s2
    /\ pc' = first
    /\ atoms' = BareAtoms(0)
    /\ kpts1' = NoKpts
    /\ outcome' = "none"
    /\ summaries' = <<>>
    /\ stagesRun' = <<>>
    /\ sessionsOfStage' = 0

\* a caller calls run_calc itself, with any structure and any flags
InvokeDirect ==
    /\ Begin("Direct", TRUE, EmptyDict, EmptyDict, "direct")
    /\ \E a \in {BareAtoms(0)} \cup {SmartVasp(BareAtoms(0), EmptyDict, g) : g \in Grids},
          gz \in BOOLEAN, seed \in BOOLEAN :
          CallRunCalc(a, gz, seed)
    /\ UNCHANGED <<running, posix, fsVars>>

\* what every caller of run_calc leaves alone when run_calc comes back
callerFrame == <<invocations, recipe, volume_relax, swaps1, swaps2, stagesRun,
                 running, objs, ref, callerBefore,
                   origBefore, err, gzip,
                 copy_from_store_dir, posix, fsVars, exitLog, triggers,
                 sessionsOfStage>>

DirectReturn ==
    /\ recipe = "Direct"
    /\ rc = "returned"
    /\ atoms' = objs[ref]
    /\ outcome' = "ok"
    /\ pc' = "DONE"
    /\ rc' = "idle"
    /\ UNCHANGED <<callerFrame, kpts1, summaries>>

\* no recipe catches anything: an exception leaving run_calc leaves the
\* recipe too, whatever stage it was in
Propagate ==
    /\ recipe # "none"
    /\ rc = "raised"
    /\ outcome' = err
    /\ pc' = "FAILED"
    /\ rc' = "idle"
    /\ UNCHANGED <<callerFrame, atoms, kpts1, summaries>>

\* run_calc(atoms) as the recipes call it: gzip and copy_from_store_dir at
\* their defaults
DefaultGzip == TRUE

\* variant: the seed flag defaults to true
SeedByDefault == TRUE

DefaultCopyFromStoreDir == FALSE

RecipeRunCalc(a) ==
    /\ CallRunCalc(a, DefaultGzip, DefaultCopyFromStoreDir)
    /\ sessionsOfStage' = 0

\* a recipe object is made and handed a structure
Invoke ==
    \E r \in Recipes \ {"Direct"}, vr \in BOOLEAN, s1 \in SwapsChoices,
       s2 \in SwapsChoices :
        /\ r \in {"Static"} => vr
        /\ r # "DoubleRelax" => s2 = EmptyDict
        /\ Begin(r, vr, s1, s2,
                 CASE r = "Static" -> "static"
                   [] r = "Relax" -> "relax"
                   [] r = "DoubleRelax" -> "relax1"
                   [] OTHER -> "PRERELAX")
        /\ UNCHANGED <<running, rc, objs, ref, callerBefore,
                   origBefore, err, gzip,
                       copy_from_store_dir, posix, fsVars, exitLog, triggers>>

\* frame of a stage action that calls run_calc
stageFrame == <<invocations, recipe, volume_relax, swaps1, swaps2, outcome,
                stagesRun, running, posix, fsVars>>

(* ------------------------ StaticJob, RelaxJob -------------------------- *)

\* variant: the merge is called without remove_none
StaticMakeKeepNone ==
    /\ recipe = "Static" /\ pc = "static" /\ rc = "idle"
    /\ \E g \in Grids :
          RecipeRunCalc(SmartVasp(atoms, merge_dicts(StaticDefaults, swaps1, FALSE), g))
    /\ UNCHANGED <<stageFrame, pc, atoms, kpts1, summaries>>

\* StaticJob.make up to the call of run_calc
StaticMake ==
    /\ recipe = "Static" /\ pc = "static" /\ rc = "idle"
    /\ \E g \in Grids :
          RecipeRunCalc(SmartVasp(atoms, merge_dicts(StaticDefaults, swaps1, TRUE), g))
    /\ UNCHANGED <<stageFrame, pc, atoms, kpts1, summaries>>

\* variant: the single-stage make returns without calling summarize_run
SingleStageFinishNoSummary(r) ==
    /\ recipe = r
    /\ rc = "returned"
    /\ atoms' = objs[ref]
    /\ outcome' = "ok"
    /\ pc' = "DONE"
    /\ rc' = "idle"
    /\ UNCHANGED <<callerFrame, kpts1, summaries>>

\* the rest of a single-stage make: atoms = run_calc(atoms),
\* summary = summarize_run(atoms, ...), return summary
SingleStageFinish(r) ==
    /\ recipe = r
    /\ rc = "returned"
    /\ atoms' = objs[ref]
    /\ summaries' = Append(summaries, pc)
    /\ outcome' = "ok"
    /\ pc' = "DONE"
    /\ rc' = "idle"
    /\ UNCHANGED <<callerFrame, kpts1>>

StaticFinish == SingleStageFinish("Static")

\* variant: the layers are handed to the merge in the wrong order
RelaxMakeDefaultsWin ==
    /\ recipe = "Relax" /\ pc = "relax" /\ rc = "idle"
    /\ \E g \in Grids :
          RecipeRunCalc(SmartVasp(atoms,
                           merge_dicts(swaps1, RelaxDefaults(volume_relax), TRUE), g))
    /\ UNCHANGED <<stageFrame, pc, atoms, kpts1, summaries>>

\* RelaxJob.make up to the call of run_calc
RelaxMake ==
    /\ recipe = "Relax" /\ pc = "relax" /\ rc = "idle"
    /\ \E g \in Grids :
          RecipeRunCalc(SmartVasp(atoms,
                           merge_dicts(RelaxDefaults(volume_relax), swaps1, TRUE), g))
    /\ UNCHANGED <<stageFrame, pc, atoms, kpts1, summaries>>

RelaxFinish == SingleStageFinish("Relax")

(* --------------------------- DoubleRelaxJob ---------------------------- *)

\* lines 173-192: first relaxation up to the call of run_calc
DoubleRelax1 ==
    /\ recipe = "DoubleRelax" /\ pc = "relax1" /\ rc = "idle"
    /\ \E g \in Grids :
          /\ kpts1' = g
          /\ RecipeRunCalc(SmartVasp(atoms,
                 merge_dicts(DoubleRelaxDefaults(volume_relax), swaps1, TRUE), g))
    /\ UNCHANGED <<stageFrame, pc, atoms, summaries>>

\* variant: the second merge starts from the first relaxation's flags
DoubleRelax2OnTopOfStage1 ==
    /\ recipe = "DoubleRelax" /\ pc = "relax1" /\ rc = "returned"
    /\ atoms' = objs[ref]
    /\ summaries' = Append(summaries, pc)
    /\ pc' = "relax2"
    /\ \E kpts2 \in Grids :
          RecipeRunCalc(ApplyRestartRule(
              SmartVasp(Summary(objs[ref]),
                  merge_dicts(
                      merge_dicts(DoubleRelaxDefaults(volume_relax), swaps1, TRUE),
                      swaps2, TRUE), kpts2),
              kpts1, kpts2))
    /\ UNCHANGED <<stageFrame, kpts1>>

\* lines 192-204: stage 1 is back, summary1, second relaxation up to the
\* call of run_calc
DoubleRelax2 ==
    /\ recipe = "DoubleRelax" /\ pc = "relax1" /\ rc = "returned"
    /\ atoms' = objs[ref]
    /\ summaries' = Append(summaries, pc)
    /\ pc' = "relax2"
    /\ \E kpts2 \in Grids :
          RecipeRunCalc(ApplyRestartRule(
              SmartVasp(Summary(objs[ref]),
                  merge_dicts(DoubleRelaxDefaults(volume_relax), swaps2, TRUE), kpts2),
              kpts1, kpts2))
    /\ UNCHANGED <<stageFrame, kpts1>>

\* lines 204-207: stage 2 is back, summary2, return both summaries
DoubleRelaxFinish ==
    /\ recipe = "DoubleRelax" /\ pc = "relax2" /\ rc = "returned"
    /\ atoms' = objs[ref]
    /\ summaries' = Append(summaries, pc)
    /\ outcome' = "ok"
    /\ pc' = "DONE"
    /\ rc' = "idle"
    /\ UNCHANGED <<callerFrame, kpts1>>

\* the recipe's frame is gone; only the file system outlives an invocation
NextInvocation ==
    /\ pc \in {"DONE", "FAILED"}
    /\ recipe' = "none"
    /\ pc' = "idle"
    /\ volume_relax' = TRUE
    /\ swaps1' = EmptyDict
    /\ swaps2' = EmptyDict
    /\ atoms' = BareAtoms(0)
    /\ kpts1' = NoKpts
    /\ outcome' = "none"
    /\ summaries' = <<>>
    /\ stagesRun' = <<>>
    /\ objs' = [caller |-> BareAtoms(0), copy |-> BareAtoms(0)]
    /\ ref' = "caller"
    /\ callerBefore' = BareAtoms(0)
    /\ origBefore' = {}
    /\ err' = "none"
    /\ gzip' = TRUE
    /\ copy_from_store_dir' = FALSE
    /\ exitLog' = <<>>
    /\ triggers' = 0
    /\ sessionsOfStage' = 0
    /\ UNCHANGED <<invocations, running, rc, posix, fsVars>>

(* ------------------------------ QMOFMaker ------------------------------ *)

\* variant: the loose volume relaxation comes after the first production
\* relaxation
NextCascadeStageVolumeLate(stage, vr) ==
    CASE stage = "PRERELAX" -> "LOOSE_POSITIONS"
      [] stage = "LOOSE_POSITIONS" -> "PRODUCTION_STAGE_1"
      [] stage = "PRODUCTION_STAGE_1" ->
            IF vr THEN "LOOSE_VOLUME" ELSE "PRODUCTION_STAGE_2"
      [] stage = "LOOSE_VOLUME" -> "PRODUCTION_STAGE_2"
      [] OTHER -> "DONE"

\* variant: the loose volume relaxation is run whatever volume_relax says
NextCascadeStageAlwaysVolume(stage, vr) ==
    CASE stage = "PRERELAX" -> "LOOSE_POSITIONS"
      [] stage = "LOOSE_POSITIONS" -> "LOOSE_VOLUME"
      [] stage = "LOOSE_VOLUME" -> "PRODUCTION_STAGE_1"
      [] stage = "PRODUCTION_STAGE_1" -> "PRODUCTION_STAGE_2"
      [] OTHER -> "DONE"

\* the order of the stages in QMOFMaker.make and double_relax
NextCascadeStage(stage, vr) ==
    CASE stage = "PRERELAX" -> "LOOSE_POSITIONS"
      [] stage = "LOOSE_POSITIONS" ->
            IF vr THEN "LOOSE_VOLUME" ELSE "PRODUCTION_STAGE_1"
      [] stage = "LOOSE_VOLUME" -> "PRODUCTION_STAGE_1"
      [] stage = "PRODUCTION_STAGE_1" -> "PRODUCTION_STAGE_2"
      [] OTHER -> "DONE"

\* prerelax up to dyn.run: the optimizer drives the solver from the
\* directory the recipe was called in, without run_calc
Prerelax ==
    /\ recipe = "QMOF" /\ pc = "PRERELAX" /\ rc = "idle" /\ running = "none"
    /\ \E g \in Grids :
          atoms' = SmartVasp(atoms, merge_dicts(PrerelaxDefaults, swaps1, TRUE), g)
    /\ running' = "PRERELAX"
    /\ stagesRun' = Append(stagesRun, "PRERELAX")
    /\ sessionsOfStage' = 0
    /\ UNCHANGED <<invocations, recipe, volume_relax, swaps1, swaps2, pc,
                   kpts1, outcome, summaries, rc, objs, ref, callerBefore,
                   origBefore,
                   err, gzip, copy_from_store_dir, posix, fsVars, exitLog,
                   triggers>>

\* dyn.run(fmax=fmax) converges: the structure was moved in place and the
\* optimizer's and the solver's files are in the current directory
PrerelaxOk ==
    /\ recipe = "QMOF" /\ pc = "PRERELAX" /\ running = "PRERELAX"
    /\ atoms' = SolverOutput(atoms)
    /\ origFiles' = origFiles \cup {"out"}
    /\ running' = "none"
    /\ pc' = NextCascadeStage(pc, volume_relax)
    /\ UNCHANGED <<invocations, recipe, volume_relax, swaps1, swaps2, kpts1,
                   outcome, summaries, stagesRun, rc, objs, ref, callerBefore,
                   origBefore,
                   err, gzip, copy_from_store_dir, posix, tmpdirs, link, cwd,
                   session, made, tmpFiles, exitLog, triggers, sessionsOfStage>>

\* dyn.run(fmax=fmax) raises: the error leaves prerelax and make
PrerelaxFail ==
    /\ recipe = "QMOF" /\ pc = "PRERELAX" /\ running = "PRERELAX"
    /\ running' = "none"
    /\ outcome' = "SolverError"
    /\ pc' = "FAILED"
    /\ UNCHANGED <<invocations, recipe, volume_relax, swaps1, swaps2, atoms,
                   kpts1, summaries, stagesRun, rc, objs, ref, callerBefore,
                   origBefore,
                   err, gzip, copy_from_store_dir, posix, fsVars, exitLog,
                   triggers, sessionsOfStage>>

\* loose_relax_positions up to the call of run_calc
LooseRelaxPositions ==
    /\ recipe = "QMOF" /\ pc = "LOOSE_POSITIONS" /\ rc = "idle"
    /\ \E g \in Grids :
          RecipeRunCalc(SmartVasp(atoms,
              merge_dicts(LoosePositionsDefaults, swaps1, TRUE), g))
    /\ UNCHANGED <<stageFrame, pc, atoms, kpts1, summaries>>

\* the previous stage is back and make goes on to loose_relax_volume
LooseRelaxVolume ==
    /\ recipe = "QMOF" /\ rc = "returned"
    /\ NextCascadeStage(pc, volume_relax) = "LOOSE_VOLUME"
    /\ pc' = "LOOSE_VOLUME"
    /\ atoms' = objs[ref]
    /\ \E g \in Grids :
          RecipeRunCalc(SmartVasp(objs[ref],
              merge_dicts(LooseVolumeDefaults, swaps1, TRUE), g))
    /\ UNCHANGED <<stageFrame, kpts1, summaries>>

\* the previous stage is back and make goes on to double_relax, first
\* relaxation (lines 230-243)
DoubleRelaxStage1 ==
    /\ recipe = "QMOF" /\ rc = "returned"
    /\ NextCascadeStage(pc, volume_relax) = "PRODUCTION_STAGE_1"
    /\ pc' = "PRODUCTION_STAGE_1"
    /\ atoms' = objs[ref]
    /\ \E g \in Grids :
          /\ kpts1' = g
          /\ RecipeRunCalc(SmartVasp(objs[ref],
                 merge_dicts(Production1Defaults(volume_relax), swaps1, TRUE), g))
    /\ UNCHANGED <<stageFrame, summaries>>

\* variant: the second relaxation is built from the structure the first
\* one was given, not from what run_calc returned
DoubleRelaxStage2FromStaleAtoms ==
    /\ recipe = "QMOF" /\ rc = "returned"
    /\ NextCascadeStage(pc, volume_relax) = "PRODUCTION_STAGE_2"
    /\ pc' = "PRODUCTION_STAGE_2"
    /\ \E kpts2 \in Grids :
          RecipeRunCalc(ApplyRestartRule(
              SmartVasp(atoms,
                  merge_dicts(Production2Defaults(volume_relax), swaps1, TRUE), kpts2),
              kpts1, kpts2))
    /\ UNCHANGED <<stageFrame, atoms, kpts1, summaries>>

\* double_relax, second relaxation (lines 243-257)
DoubleRelaxStage2 ==
    /\ recipe = "QMOF" /\ rc = "returned"
    /\ NextCascadeStage(pc, volume_relax) = "PRODUCTION_STAGE_2"
    /\ pc' = "PRODUCTION_STAGE_2"
    /\ atoms' = objs[ref]
    /\ \E kpts2 \in Grids :
          RecipeRunCalc(ApplyRestartRule(
              SmartVasp(objs[ref],
                  merge_dicts(Production2Defaults(volume_relax), swaps1, TRUE), kpts2),
              kpts1, kpts2))
    /\ UNCHANGED <<stageFrame, kpts1, summaries>>

\* double_relax returns; summarize_run, return summary (lines 257-259, 80-83)
QMOFFinish ==
    /\ recipe = "QMOF" /\ rc = "returned"
    /\ NextCascadeStage(pc, volume_relax) = "DONE"
    /\ atoms' = objs[ref]
    /\ summaries' = Append(summaries, pc)
    /\ outcome' = "ok"
    /\ pc' = "DONE"
    /\ rc' = "idle"
    /\ UNCHANGED <<callerFrame, kpts1>>

RunCalcStep ==
    \/ RunCalcEnter
    \/ SolverOk
    \/ SolverFail
    \/ ExitCopyBack
    \/ ExitCompress
    \/ ExitRetractLink
    \/ ExitRemoveDir

Next ==
    \/ InvokeDirect
    \/ DirectReturn
    \/ Invoke
    \/ StaticMake
    \/ StaticFinish
    \/ RelaxMake
    \/ RelaxFinish
    \/ DoubleRelax1
    \/ DoubleRelax2
    \/ DoubleRelaxFinish
    \/ Prerelax
    \/ PrerelaxOk
    \/ PrerelaxFail
    \/ LooseRelaxPositions
    \/ LooseRelaxVolume
    \/ DoubleRelaxStage1
    \/ DoubleRelaxStage2
    \/ QMOFFinish
    \/ Propagate
    \/ NextInvocation
    \/ RunCalcStep

Spec == Init /\ [][Next]_vars

(* ============================== properties ============================= *)

\* the set of elements of a sequence
Range(q) == {q[i] : i \in 1..Len(q)}

\* q is an initial part of r
IsPrefix(q, r) == Len(q) <= Len(r) /\ \A i \in 1..Len(q) : q[i] = r[i]

\* the run_calc call in progress or just over created a scratch session
SessionWasCreated == triggers > 0 \/ rc = "body"

(* C1: once a run_calc call that created a scratch session has returned or
   raised, the subdirectory it created is gone from the scratch root and no
   reverse-link to it is left at the original location. *)
C1_NoScratchLeftAfterCall ==
    (RunCalcOver /\ SessionWasCreated) =>
        /\ made \notin tmpdirs
        /\ link # made
        /\ session = 0
        /\ cwd = 0

C1_Witness ==
    /\ rc = "raised" /\ err = "SolverError"
    /\ posix /\ made >= 1 /\ made \notin tmpdirs /\ link = 0

\* the cleanup steps a call with this gzip flag goes through, in order
ExpectedExit(gz) ==
    IF gz THEN <<"copy", "compress", "unlink", "rmtree">>
    ELSE <<"copy", "unlink", "rmtree">>

(* C2: the cleanup steps of a scratch session run in the order copy-back,
   compress (when gzip is set), retract link, remove directory, on success
   and on failure of the solver, and all of them have run when run_calc
   hands back control, also when the compress step failed. *)
C2_CleanupOrder ==
    /\ IsPrefix(exitLog, ExpectedExit(gzip))
    /\ (RunCalcOver /\ SessionWasCreated) => exitLog = ExpectedExit(gzip)

C2_Witness ==
    /\ rc = "raised" /\ err = "CompressError"
    /\ exitLog = <<"copy", "compress", "unlink", "rmtree">>
    /\ tmpdirs = {} /\ link = 0 /\ posix

\* the override layer and the defaults of the second relaxation
Stage2Flags ==
    IF recipe = "DoubleRelax"
    THEN merge_dicts(DoubleRelaxDefaults(volume_relax), swaps2, TRUE)
    ELSE merge_dicts(Production2Defaults(volume_relax), swaps1, TRUE)

InStage2 == pc \in {"relax2", "PRODUCTION_STAGE_2"} /\ rc \in {"call", "body"}

(* C3: when the second relaxation of DoubleRelaxJob or of the cascade
   executes, its calculator carries istart = 0 put there by the recipe if
   and only if stage 1 resolved the grid [1,1,1] and stage 2 did not; for
   every other pair of grids the directives are those of the merge. *)
C3_RestartRule ==
    InStage2 =>
        LET a == objs["caller"] IN
        IF kpts1 = <<1, 1, 1>> /\ a.kpts # <<1, 1, 1>>
        THEN /\ "istart" \in DOMAIN a.params
             /\ a.params["istart"] = "0"
             /\ \A k \in (DOMAIN Stage2Flags) \ {"istart"} :
                    k \in DOMAIN a.params /\ a.params[k] = Stage2Flags[k]
        ELSE a.params = Stage2Flags

C3_Witness ==
    /\ recipe = "QMOF" /\ pc = "PRODUCTION_STAGE_2" /\ rc = "body"
    /\ kpts1 = <<1, 1, 1>> /\ objs[ref].kpts = <<2, 2, 2>>
    /\ objs[ref].params["istart"] = "0"

\* the stages a cascade may go to from stage p
CascadeSuccessors(p) ==
    CASE p = "PRERELAX" -> {"LOOSE_POSITIONS", "FAILED"}
      [] p = "LOOSE_POSITIONS" -> {"LOOSE_VOLUME", "PRODUCTION_STAGE_1", "FAILED"}
      [] p = "LOOSE_VOLUME" -> {"PRODUCTION_STAGE_1", "FAILED"}
      [] p = "PRODUCTION_STAGE_1" -> {"PRODUCTION_STAGE_2", "FAILED"}
      [] p = "PRODUCTION_STAGE_2" -> {"DONE", "FAILED"}
      [] OTHER -> {}

StageRank(p) ==
    CASE p = "PRERELAX" -> 1
      [] p = "LOOSE_POSITIONS" -> 2
      [] p = "LOOSE_VOLUME" -> 3
      [] p = "PRODUCTION_STAGE_1" -> 4
      [] p = "PRODUCTION_STAGE_2" -> 5
      [] OTHER -> 6

(* C4: within one invocation of the cascade the stage only moves forward
   along PRERELAX, LOOSE_POSITIONS, [LOOSE_VOLUME], PRODUCTION_STAGE_1,
   PRODUCTION_STAGE_2, DONE; an error leaving a stage ends the invocation
   as failed, and after that no stage is started, none is re-run and DONE
   is not reached. *)
C4_CascadeOrder ==
    [][ (recipe = "QMOF" /\ recipe' = "QMOF") =>
           /\ pc' # pc => pc' \in CascadeSuccessors(pc)
           /\ rc = "raised" => pc' = "FAILED"
           /\ pc = "FAILED" => (pc' = "FAILED" /\ stagesRun' = stagesRun)
           /\ \A i \in 1..Len(stagesRun') : \A j \in 1..Len(stagesRun') :
                 i < j => StageRank(stagesRun'[i]) < StageRank(stagesRun'[j])
      ]_vars

C4_Witness ==
    /\ recipe = "QMOF" /\ pc = "FAILED" /\ outcome = "SolverError"
    /\ stagesRun = <<"PRERELAX", "LOOSE_POSITIONS", "LOOSE_VOLUME">>

(* C5: the cascade runs LOOSE_VOLUME if and only if volume_relax is true: a
   finished cascade has run exactly the four stages pre-relax, loose
   positions, production 1, production 2 when volume_relax is false and
   exactly five, with the loose volume stage third, when it is true. *)
C5_LooseVolumeIffRequested ==
    recipe = "QMOF" =>
        /\ "LOOSE_VOLUME" \in Range(stagesRun) => volume_relax
        /\ pc = "DONE" =>
              stagesRun =
                 IF volume_relax
                 THEN <<"PRERELAX", "LOOSE_POSITIONS", "LOOSE_VOLUME",
                        "PRODUCTION_STAGE_1", "PRODUCTION_STAGE_2">>
                 ELSE <<"PRERELAX", "LOOSE_POSITIONS",
                        "PRODUCTION_STAGE_1", "PRODUCTION_STAGE_2">>

C5_Witness ==
    /\ recipe = "QMOF" /\ pc = "DONE" /\ ~volume_relax
    /\ Len(stagesRun) = 4

(* C6: every stage of the cascade, the pre-relaxation included, executes
   its solver inside a scratch session of its own: while a stage's solver
   runs one session is open, it was opened for this stage, and between
   stages none is open. *)
C6_EveryStageInOwnSession ==
    recipe = "QMOF" =>
        /\ running # "none" => (session # 0 /\ sessionsOfStage = 1)
        /\ running = "none" /\ rc \in {"idle", "returned", "raised"} => session = 0
        /\ Cardinality(tmpdirs) <= 1

(* C7 as stated: every recipe that finished has called summarize_run
   exactly once, after its last stage. *)
C7_SummarizedOnce ==
    (pc = "DONE" /\ recipe \in {"Static", "Relax", "DoubleRelax", "QMOF"}) =>
        /\ Len(summaries) = 1
        /\ summaries[1] = stagesRun[Len(stagesRun)]

(* C7 amended: StaticJob, RelaxJob and QMOFMaker call summarize_run exactly
   once per successful invocation, after their last stage; DoubleRelaxJob
   calls it twice, after stage 1 and after stage 2; in every recipe the last
   call comes after the last stage, and no stage is summarized before it
   has run. *)
C7_SummarizedPerRecipe ==
    /\ Range(summaries) \subseteq Range(stagesRun)
    /\ (pc = "DONE" /\ recipe \in {"Static", "Relax", "DoubleRelax", "QMOF"}) =>
          /\ summaries = IF recipe = "DoubleRelax"
                         THEN <<"relax1", "relax2">>
                         ELSE <<stagesRun[Len(stagesRun)]>>
          /\ atoms.solved

C7_Witness ==
    /\ recipe = "DoubleRelax" /\ pc = "DONE" /\ Len(summaries) = 2

(* C8: run_calc called with a structure that has no calculator raises
   ValueError at once: the step that finds the calculator missing creates
   no subdirectory and no link, copies no file and does not trigger the
   solver. *)
C8_NoCalculatorFailsFast ==
    [][ (rc = "call" /\ ~objs["caller"].hasCalc) =>
           /\ rc' = "raised"
           /\ err' = "ValueError"
           /\ triggers' = 0
           /\ UNCHANGED <<tmpdirs, link, cwd, session, made, origFiles, tmpFiles>>
      ]_vars

C8_Witness ==
    /\ rc = "raised" /\ err = "ValueError" /\ ~callerBefore.hasCalc
    /\ triggers = 0 /\ made = 0 /\ tmpdirs = {} /\ link = 0

\* the solver was triggered by this call and did not record a result
SolverFailed == triggers > 0 /\ rc # "body" /\ ~objs[ref].solved

CleanupDone == session = 0 /\ tmpdirs = {} /\ exitLog = ExpectedExit(gzip)

C10_CallerStructureUntouched ==
    /\ rc # "idle" => objs["caller"] = callerBefore
    /\ rc = "returned" =>
          /\ ref # "caller"
          /\ objs[ref] = SolverOutput(callerBefore)

C10_Witness ==
    /\ rc = "returned" /\ objs[ref].solved
    /\ ~objs["caller"].solved /\ objs["caller"].hasCalc

(* C11: in DoubleRelaxJob and in the cascade every stage after the first is
   given the structure the stage before it produced: the geometry a stage
   starts from is the one reached after all stages run so far, never the
   recipe's input or an earlier stage's output, with or without the loose
   volume stage. *)
C11_StageInputIsPreviousOutput ==
    recipe \in {"DoubleRelax", "QMOF"} =>
        /\ rc = "call" => objs["caller"].geom = Len(stagesRun)
        /\ rc = "body" => objs["caller"].geom = Len(stagesRun) - 1
        /\ rc = "returned" => objs[ref].geom = Len(stagesRun)
        /\ running = "PRERELAX" => atoms.geom = 0
        /\ pc = "DONE" => atoms.geom = Len(stagesRun)

C11_Witness ==
    /\ recipe = "QMOF" /\ ~volume_relax
    /\ pc = "PRODUCTION_STAGE_2" /\ rc = "body"
    /\ stagesRun = <<"PRERELAX", "LOOSE_POSITIONS", "PRODUCTION_STAGE_1",
                     "PRODUCTION_STAGE_2">>
    /\ objs["caller"].geom = 3

(* C12: during and after a run_calc call every file that was in the
   original directory when the call began and that the solver does not
   write is still there under its name (a name stands for its content: only
   the solver writes); in particular a file the solver deleted in the
   scratch subdirectory is not deleted at the original location. *)
C12_UntouchedFilesKept ==
    rc # "idle" => (origBefore \ SolverWrites) \subseteq origFiles

\* the solver deleted the seeded file in scratch; the copy-back and the
\* compress step are over
C12_Witness ==
    /\ rc = "exit_unlink" /\ copy_from_store_dir /\ gzip /\ err = "none"
    /\ "pre" \in origBefore /\ "pre" \notin tmpFiles /\ "out" \in tmpFiles
    /\ "pre" \in origFiles /\ "out.gz" \in origFiles

\* the override layer of the stage the recipe is in
StageSwaps == IF pc = "relax2" THEN swaps2 ELSE swaps1

\* a recipe stage has built its calculator and handed it to run_calc
StageCalled == recipe \in {"Static", "Relax", "DoubleRelax", "QMOF"} /\ rc \in {"call", "body"}

\* the directives of the calculator handed to run_calc
StageParams == objs["caller"].params

(* C13: the calculator of a stage holds no key that the stage's override
   layer sets to None, whatever the defaults give it; the static recipe
   with overrides {nedos: None} resolves to its defaults without nedos,
   every other key at its default value. *)
C13_NoneRemovesKey ==
    /\ StageCalled =>
          \A k \in DOMAIN StageSwaps :
              StageSwaps[k] = "None" => k \notin DOMAIN StageParams
    /\ (running = "PRERELAX") =>
          \A k \in DOMAIN swaps1 :
              swaps1[k] = "None" => k \notin DOMAIN atoms.params
    /\ (StageCalled /\ recipe = "Static" /\ swaps1 = [k \in {"nedos"} |-> "None"]) =>
          StageParams = [ismear |-> "-5", isym |-> "2", laechg |-> "True",
                         lcharg |-> "True", lwave |-> "True", nsw |-> "0",
                         sigma |-> "0.05"]

C13_Witness ==
    /\ recipe = "Static" /\ rc = "body"
    /\ swaps1 = [k \in {"nedos"} |-> "None"]
    /\ "nedos" \notin DOMAIN objs[ref].params
    /\ objs[ref].params["nsw"] = "0"

\* the defaults of the stage the recipe is in
StageDefaults ==
    CASE pc = "static" -> StaticDefaults
      [] pc = "relax" -> RelaxDefaults(volume_relax)
      [] pc \in {"relax1", "relax2"} -> DoubleRelaxDefaults(volume_relax)
      [] pc = "PRERELAX" -> PrerelaxDefaults
      [] pc = "LOOSE_POSITIONS" -> LoosePositionsDefaults
      [] pc = "LOOSE_VOLUME" -> LooseVolumeDefaults
      [] pc = "PRODUCTION_STAGE_1" -> Production1Defaults(volume_relax)
      [] pc = "PRODUCTION_STAGE_2" -> Production2Defaults(volume_relax)
      [] OTHER -> EmptyDict

\* p is d, leaving aside an istart the restart rule may have added
SameExceptIstart(p, d) ==
    /\ (DOMAIN p) \ {"istart"} = (DOMAIN d) \ {"istart"}
    /\ \A k \in (DOMAIN d) \ {"istart"} : p[k] = d[k]

\* a later layer's value is the one in the result
LaterLayerWins(p) ==
    \A k \in (DOMAIN StageSwaps) \cap (DOMAIN StageDefaults) :
        StageSwaps[k] # "None" => (k \in DOMAIN p /\ p[k] = StageSwaps[k])

(* C14 as stated: with an empty override layer every stage's merged
   parameter set is the stage's defaults, the cascade stages with a
   None-valued default included, and a later layer wins every collision. *)
C14_MergeOfDefaultsIsIdentity ==
    /\ StageCalled =>
          /\ StageSwaps = EmptyDict => SameExceptIstart(StageParams, StageDefaults)
          /\ LaterLayerWins(StageParams)
    /\ running = "PRERELAX" =>
          /\ swaps1 = EmptyDict => atoms.params = PrerelaxDefaults
          /\ LaterLayerWins(atoms.params)

(* C14 amended: with an empty override layer a stage's merged parameter set
   is the stage's defaults without their None-valued entries: the defaults
   themselves for every stage but pre-relaxation and loose positions, whose
   encut=None entry is dropped; a later layer wins every collision. *)
C14_MergeOfDefaultsDropsNone ==
    /\ StageCalled =>
          /\ StageSwaps = EmptyDict =>
                SameExceptIstart(StageParams,
                    IF pc = "LOOSE_POSITIONS"
                    THEN DelKey(StageDefaults, "encut")
                    ELSE StageDefaults)
          /\ LaterLayerWins(StageParams)
    /\ running = "PRERELAX" =>
          /\ swaps1 = EmptyDict => atoms.params = DelKey(PrerelaxDefaults, "encut")
          /\ LaterLayerWins(atoms.params)

C14_Witness ==
    /\ recipe = "QMOF" /\ pc = "LOOSE_POSITIONS" /\ rc = "body"
    /\ swaps1 = EmptyDict
    /\ "encut" \notin DOMAIN objs[ref].params
    /\ objs[ref].params["nsw"] = "250"

\* the relaxation defaults that do not depend on volume_relax
RelaxFixedDefaults ==
    [ediffg |-> "-0.02", ibrion |-> "2", ismear |-> "0", isym |-> "0",
     lcharg |-> "False", lwave |-> "False", nsw |-> "200", sigma |-> "0.05"]

(* C15: the calculator of RelaxJob carries isif = 3 when volume_relax is
   true and isif = 2 when it is false, unless the overrides name isif, and
   every other default has its fixed value whatever volume_relax is, unless
   the overrides name it. *)
C15_RelaxIsif ==
    (StageCalled /\ recipe = "Relax") =>
        /\ "isif" \notin DOMAIN swaps1 =>
              /\ "isif" \in DOMAIN StageParams
              /\ volume_relax => StageParams["isif"] = "3"
              /\ ~volume_relax => StageParams["isif"] = "2"
        /\ \A k \in (DOMAIN RelaxFixedDefaults) \ (DOMAIN swaps1) :
              k \in DOMAIN StageParams /\ StageParams[k] = RelaxFixedDefaults[k]
        /\ swaps1 = EmptyDict =>
              DOMAIN StageParams = (DOMAIN RelaxFixedDefaults) \cup {"isif"}

C15_Witness ==
    /\ recipe = "Relax" /\ rc = "body" /\ ~volume_relax /\ swaps1 = EmptyDict
    /\ objs[ref].params["isif"] = "2"
    /\ objs[ref].params["nsw"] = "200"

(* C16: while the solver of a run_calc call executes, the scratch
   subdirectory holds the files the original directory had when the call
   began if copy_from_store_dir is true and holds none of them if it is
   false; the recipes call run_calc with the flag false, so the scratch
   session of a stage starts empty whatever earlier stages copied back. *)
C16_SeedFlag ==
    /\ rc = "body" =>
          /\ copy_from_store_dir => origBefore \subseteq tmpFiles
          /\ ~copy_from_store_dir => tmpFiles = {}
    /\ (recipe \in {"Static", "Relax", "DoubleRelax", "QMOF"} /\ rc # "idle") =>
          ~copy_from_store_dir
    /\ (recipe \in {"Static", "Relax", "DoubleRelax", "QMOF"} /\ rc = "body") =>
          tmpFiles = {}

C16_Witness ==
    /\ recipe = "QMOF" /\ pc = "LOOSE_VOLUME" /\ rc = "body"
    /\ "out.gz" \in origFiles /\ "pre" \in origFiles
    /\ tmpFiles = {}

\* p holds, key by key, what the override layer sw says and, where sw is
\* silent, what the defaults d say; the keys in free are left open
ResolvedFrom(p, d, sw, free) ==
    \A k \in ((DOMAIN p) \cup (DOMAIN d) \cup (DOMAIN sw)) \ free :
        IF k \in DOMAIN sw
        THEN IF sw[k] = "None"
             THEN k \notin DOMAIN p
             ELSE k \in DOMAIN p /\ p[k] = sw[k]
        ELSE IF k \in DOMAIN d
             THEN k \in DOMAIN p /\ p[k] = d[k]
             ELSE k \notin DOMAIN p

\* the restart rule has set istart on the calculator handed to run_calc
RuleFired == kpts1 = <<1, 1, 1>> /\ objs["caller"].kpts # <<1, 1, 1>>

(* C17: in DoubleRelaxJob the first calculator is resolved from the
   defaults and swaps1 alone and the second from the same defaults and
   swaps2 alone: nothing swaps1 set or removed shows in stage 2, apart from
   the istart the restart rule puts there. *)
C17_IndependentOverrideLayers ==
    (StageCalled /\ recipe = "DoubleRelax") =>
        /\ pc = "relax1" =>
              ResolvedFrom(StageParams, DoubleRelaxDefaults(volume_relax), swaps1, {})
        /\ pc = "relax2" =>
              ResolvedFrom(StageParams, DoubleRelaxDefaults(volume_relax), swaps2,
                           IF RuleFired THEN {"istart"} ELSE {})

C17_Witness ==
    /\ recipe = "DoubleRelax" /\ pc = "relax2" /\ rc = "body"
    /\ swaps1 = [lwave |-> "None", encut |-> "None"]
    /\ swaps2 = [k \in {"istart"} |-> "1"]
    /\ objs[ref].params["lwave"] = "True"
    /\ objs[ref].params["istart"] = "1"

\* the production defaults shared by both sub-stages
ProductionSharedDefaults ==
    [isif |-> IF volume_relax THEN "3" ELSE "2", lcharg |-> "False",
     lwave |-> "True", nsw |-> IF volume_relax THEN "500" ELSE "250"]

(* C18: in the cascade's production double relaxation the directives of the
   two sub-stages agree on every key but lreal (and the istart the restart
   rule may add to the second): without a user lreal the first carries
   lreal = auto and the second no lreal, a user lreal is carried by both,
   and isif, lcharg, lwave and nsw have the same defaults in both. *)
C18_ProductionStagesDifferInLreal ==
    (StageCalled /\ recipe = "QMOF" /\ pc = "PRODUCTION_STAGE_2") =>
        LET p1 == atoms.params
            p2 == StageParams
        IN  /\ \A k \in ((DOMAIN p1) \cup (DOMAIN p2)) \
                        ({"lreal"} \cup (IF RuleFired THEN {"istart"} ELSE {})) :
                    k \in DOMAIN p1 /\ k \in DOMAIN p2 /\ p1[k] = p2[k]
            /\ "lreal" \notin DOMAIN swaps1 =>
                    /\ "lreal" \in DOMAIN p1 /\ p1["lreal"] = "auto"
                    /\ "lreal" \notin DOMAIN p2
            /\ ("lreal" \in DOMAIN swaps1 /\ swaps1["lreal"] # "None") =>
                    /\ "lreal" \in DOMAIN p1 /\ p1["lreal"] = swaps1["lreal"]
                    /\ "lreal" \in DOMAIN p2 /\ p2["lreal"] = swaps1["lreal"]
            /\ \A k \in (DOMAIN ProductionSharedDefaults) \ (DOMAIN swaps1) :
                    p1[k] = ProductionSharedDefaults[k]

C18_Witness ==
    /\ recipe = "QMOF" /\ pc = "PRODUCTION_STAGE_2" /\ rc = "body"
    /\ swaps1 = EmptyDict
    /\ atoms.params["lreal"] = "auto"
    /\ "lreal" \notin DOMAIN objs[ref].params
    /\ objs[ref].params["nsw"] = atoms.params["nsw"]

(* C19: when the overrides of the second relaxation name an istart, the
   calculator that executes stage 2 carries istart = 0 if stage 1 resolved
   the grid [1,1,1] and stage 2 did not, the user's value notwithstanding,
   and carries the user's value for every other pair of grids. *)
C19_RestartRuleOverridesUser ==
    (InStage2 /\ "istart" \in DOMAIN StageSwaps /\ StageSwaps["istart"] # "None") =>
        /\ "istart" \in DOMAIN StageParams
        /\ RuleFired => StageParams["istart"] = "0"
        /\ ~RuleFired => StageParams["istart"] = StageSwaps["istart"]

C19_Witness ==
    /\ recipe = "DoubleRelax" /\ pc = "relax2" /\ rc = "body"
    /\ swaps2 = [k \in {"istart"} |-> "1"]
    /\ kpts1 = <<1, 1, 1>> /\ objs[ref].kpts = <<2, 2, 2>>
    /\ objs[ref].params["istart"] = "0"

UserEncut ==
    IF "encut" \in DOMAIN swaps1 /\ swaps1["encut"] # "None"
    THEN swaps1["encut"]
    ELSE "None"

EncutFollowsUser(p) ==
    /\ "encut" \in DOMAIN p <=> UserEncut # "None"
    /\ "encut" \in DOMAIN p => p["encut"] = UserEncut

(* C20: the parameter set the pre-relaxation and the loose positions
   relaxation hand to the calculator holds an encut key exactly when the
   user overrides give encut a value other than None, and then it is the
   user's value: the stage default encut=None is deleted by the merge. *)
C20_EncutOnlyFromUser ==
    /\ running = "PRERELAX" => EncutFollowsUser(atoms.params)
    /\ (StageCalled /\ pc = "LOOSE_POSITIONS") => EncutFollowsUser(StageParams)

C20_Witness ==
    /\ recipe = "QMOF" /\ pc = "LOOSE_POSITIONS" /\ rc = "body"
    /\ swaps1 = [k \in {"istart"} |-> "1"]
    /\ "encut" \notin DOMAIN objs[ref].params
    /\ "ediffg" \in DOMAIN objs[ref].params

====
